---- MODULE Spec2Model ----
(***************************************************************************)
(* State-machine model of badger-s3: the certmagic storage facade          *)
(* (S3Storage) over an S3-compatible remote store, with the process-wide   *)
(* BadgerDB read-through cache and the sentinel-object lock.               *)
(*                                                                         *)
(* Strings are sequences of tokens (a key "a.lock" is <<"a", ".lock">>),   *)
(* so that Go's string concatenation is \o and two names are equal exactly *)
(* when their concatenations are.  Byte strings are sequences of numbers.  *)
(* Time is in whole seconds.                                               *)
(***************************************************************************)
EXTENDS Integers, Sequences, FiniteSets, TLC

\* ------------------------------------------------------------------ bounds

\* Facade calls started in one behaviour.
MaxOps == 3
\* Clock advances in one behaviour.
MaxTicks == 1

\* -------------------------------------------------------- program constants

\* LockPollInterval = 1 * time.Second
LockPollInterval == 1
\* LockTimeout = 15 * time.Second
LockTimeout == 15
\* time.Hour*1, the TTL of every cache entry, in seconds
CacheTTL == 3600

\* ------------------------------------------------------------ the universe

\* c1 makes any call; c2 runs beside it and makes the calls with more than
\* one step (Load, Stat, Lock) and Unlock.  A single-step call of c2 would
\* only repeat the same call made by c1.
Callers == {"c1", "c2"}
Writers == {"c1"}

\* Logical keys handed to the facade.  "a_ki" and "a.lock" are ordinary keys
\* a caller may use; they are in the universe because the facade derives
\* cache keys and object names by suffixing.
KeySeq == << <<"a">>, <<"a", "_ki">>, <<"a", ".lock">> >>
AllKeys == {KeySeq[i] : i \in 1..Len(KeySeq)}

\* The keys the callers of Spec use.
Keys == {KeySeq[1], KeySeq[2]}

\* Payloads handed to Store.
Payloads == {<<1>>, <<2, 3>>}

\* S3Opts.ObjPrefix
Prefix == <<"p">>

\* Prefixes handed to List: the empty one and the key "a".
ListPrefixes == {<<>>, <<"a">>}

\* Nonces SecretBoxIO may draw for one wrap.
Nonces == {5, 9}

\* How far the clock may jump in one advance.
TickSteps == {LockTimeout + 1, CacheTTL}

\* ------------------------------------------------------------------ naming

objName(key) == Prefix \o <<"/">> \o key

objLockName(key) == objName(key) \o <<".lock">>

\* The cache key of the KeyInfo of key: key + "_ki".
kiCacheKey(key) == key \o <<"_ki">>

ObjectNames == {objName(k) : k \in AllKeys} \cup {objLockName(k) : k \in AllKeys}

CacheKeys == AllKeys \cup {kiCacheKey(k) : k \in AllKeys}

\* ------------------------------------------------------------- conversions

\* The decimal digits of n as ASCII codes: the text time.Format(RFC3339)
\* writes for the instant n (whole seconds).
RECURSIVE Digits(_)
Digits(n) == IF n < 10 THEN <<48 + n>> ELSE Digits(n \div 10) \o <<48 + (n % 10)>>

Format(t) == Digits(t)

RECURSIVE DigitsValue(_)
DigitsValue(b) ==
    IF Len(b) = 0 THEN 0
    ELSE 10 * DigitsValue(SubSeq(b, 1, Len(b) - 1)) + (b[Len(b)] - 48)

\* time.Parse(time.RFC3339, string(buf)): an error unless buf is a timestamp.
ParseTime(b) ==
    IF Len(b) > 0 /\ \A i \in 1..Len(b) : b[i] \in 48..57
    THEN [err |-> FALSE, t |-> DigitsValue(b)]
    ELSE [err |-> TRUE, t |-> 0]

\* certmagic.KeyInfo and its zero value.
NoKi == [Key |-> <<>>, Size |-> 0, Modified |-> 0, IsTerminal |-> FALSE]

KeyCode(key) == CHOOSE i \in 1..Len(KeySeq) : KeySeq[i] = key

\* json.Marshal(ki): the object's tokens between '{' (123) and '}' (125).
Marshal(ki) ==
    <<123, KeyCode(ki.Key), ki.Size, ki.Modified,
      IF ki.IsTerminal THEN 1 ELSE 0, 125>>

\* json.Unmarshal(raw, &ki): an error (ki untouched) unless raw is an object
\* with the four fields.
Unmarshal(b) ==
    IF /\ Len(b) = 6
       /\ b[1] = 123
       /\ b[6] = 125
       /\ b[2] \in 1..Len(KeySeq)
       /\ b[5] \in {0, 1}
    THEN [err |-> FALSE,
          ki |-> [Key |-> KeySeq[b[2]], Size |-> b[3], Modified |-> b[4],
                  IsTerminal |-> (b[5] = 1)]]
    ELSE [err |-> TRUE, ki |-> NoKi]

\* ---------------------------------------------------- encryption transform

\* SecretBoxIO.SecretKey (one byte of it).
SecretKey == 7

RECURSIVE SumBytes(_)
SumBytes(b) == IF Len(b) = 0 THEN 0 ELSE b[1] + SumBytes(Tail(b))

\* The authentication tag of a ciphertext under the key and a nonce.  Tags
\* lie outside the byte range: no byte string written without the key
\* carries a valid one.
Mac(nonce, ct) == 1000 + ((SecretKey + nonce + SumBytes(ct)) % 256)

Encrypt(nonce, pt) == [i \in 1..Len(pt) |-> (pt[i] + SecretKey + nonce) % 256]

Decrypt(nonce, ct) ==
    [i \in 1..Len(ct) |-> (ct[i] + 256 - ((SecretKey + nonce) % 256)) % 256]

\* SecretBoxIO.ByteReader: nonce, tag, ciphertext.
SecretBoxSeal(nonce, pt) ==
    <<nonce, Mac(nonce, Encrypt(nonce, pt))>> \o Encrypt(nonce, pt)

\* SecretBoxIO.WrapReader read to the end: the plaintext, or an error when
\* the nonce is missing or the tag does not verify.
SecretBoxOpen(b) ==
    IF Len(b) < 2 THEN [err |-> TRUE, buf |-> <<>>]
    ELSE LET ct == SubSeq(b, 3, Len(b)) IN
         IF b[2] = Mac(b[1], ct)
         THEN [err |-> FALSE, buf |-> Decrypt(b[1], ct)]
         ELSE [err |-> TRUE, buf |-> <<>>]

\* gs.iowrap.ByteReader(value) under iowrap variant io.
ByteReader(io, nonce, value) ==
    IF io = "cleartext" THEN value ELSE SecretBoxSeal(nonce, value)

\* io.ReadAll(gs.iowrap.WrapReader(r)) on a stream holding b.
WrapReader(io, b) ==
    IF io = "cleartext" THEN [err |-> FALSE, buf |-> b] ELSE SecretBoxOpen(b)

\* ------------------------------------------------------------------- state

VARIABLES
    now,      \* time.Now(), in seconds
    ticks,    \* clock advances so far
    ops,      \* facade calls started so far
    iowrap,   \* gs.iowrap: "cleartext" (CleartextIO) or "secretbox" (SecretBoxIO)
    db,       \* the package-level BadgerDB handle: "open", or "nil" when badger.Open failed
    crashed,  \* the process has panicked
    cache,    \* the entries of the BadgerDB, by cache key
    remote,   \* the bucket's objects, by object name
    pc,       \* where each caller is inside a facade call
    loc,      \* the locals of each caller's call in progress
    ret,      \* what the last completed call returned, and to whom
    lastStat, \* the last KeyInfo a Stat fetched from the remote store and cached,
              \* with its key and the time, until that key's object is written
    lockedBy  \* per key, the callers whose Lock of it returned success by writing
              \* the sentinel and who have not had an Unlock of it succeed since

vars == <<now, ticks, ops, iowrap, db, lastStat, lockedBy, crashed, cache, remote, pc, loc, ret>>

\* A missing cache entry, and a missing object.
NoEntry == [present |-> FALSE, data |-> <<>>, expiresAt |-> 0]

NoObject == [present |-> FALSE, body |-> <<>>, modified |-> 0]

NoLoc == [key |-> <<>>, startedAt |-> 0, polledAt |-> 0, wakeAt |-> 0,
          buf |-> <<>>, ki |-> NoKi]

NoRet == [by |-> "none", op |-> "none", key |-> <<>>, err |-> "nil", val |-> <<>>,
          ki |-> NoKi, flag |-> FALSE, remote |-> FALSE, during |-> {},
          names |-> {}]

\* What a call returns to caller c: op(key) gave err with the bytes val (for
\* Store, the bytes it was given), the KeyInfo ki or the boolean flag; remote
\* says whether the call went to the remote store; during, kept for Lock,
\* says which other callers were inside a Lock of the same key when this one
\* returned; names, set by List, is the keys it returned.
Result(c, op, key, err, val, ki, flag, viaRemote) ==
    [by |-> c, op |-> op, key |-> key, err |-> err, val |-> val, ki |-> ki,
     flag |-> flag, remote |-> viaRemote,
     during |-> IF op = "Lock"
                THEN {d \in Callers \ {c} : /\ pc[d] \in {"lock_get", "lock_put"}
                                             /\ loc[d].key = key}
                ELSE {},
     names |-> {}]

NoStat == [key |-> <<>>, ki |-> NoKi, at |-> 0]

\* lastStat after a write to, or a removal of, the object name.
Touched(name) ==
    IF lastStat.key # <<>> /\ objName(lastStat.key) = name THEN NoStat ELSE lastStat

\* ------------------------------------------------------------- local cache

\* txn.Get as it would be if entries never expired.
txnGetNoExpiry(key) ==
    IF cache[key].present
    THEN [err |-> FALSE, data |-> cache[key].data]
    ELSE [err |-> TRUE, data |-> <<>>]

\* txn.Get(key): the entry, found until its expiry instant is reached;
\* ErrKeyNotFound for a missing or an expired one.
txnGet(key) ==
    IF cache[key].present /\ now < cache[key].expiresAt
    THEN [err |-> FALSE, data |-> cache[key].data]
    ELSE [err |-> TRUE, data |-> <<>>]

\* isCacheEntryExistent: txn.Get gave no error.
isCacheEntryExistent(key) == ~txnGet(key).err

\* getCacheEntry: the entry's bytes, or nil.
getCacheEntry(key) ==
    IF ~txnGet(key).err
    THEN [found |-> TRUE, data |-> txnGet(key).data]
    ELSE [found |-> FALSE, data |-> <<>>]

\* setCacheEntry: the cache with (key, data) expiring ttl from now.
setCacheEntry(key, data, ttl) ==
    [cache EXCEPT ![key] = [present |-> TRUE, data |-> data, expiresAt |-> now + ttl]]

\* ------------------------------------------------------------ remote store

PutObject(name, body) ==
    [remote EXCEPT ![name] = [present |-> TRUE, body |-> body, modified |-> now]]

RemoveObject(name) == [remote EXCEPT ![name] = NoObject]

\* What reading a GetObject handle to the end gives: an error for the nil
\* handle GetObject returns beside an error, and for a missing object.
NilObject == [present |-> FALSE, body |-> <<>>, modified |-> 0, nil |-> TRUE]

Handle(name) == [present |-> remote[name].present, body |-> remote[name].body,
                 modified |-> remote[name].modified, nil |-> FALSE]

ReadAll(obj) ==
    IF obj.nil \/ ~obj.present THEN [err |-> TRUE, buf |-> <<>>]
    ELSE [err |-> FALSE, buf |-> obj.body]

\* ------------------------------------------------------------------ Init

\* The bucket outlives the process: at start it holds what earlier runs
\* stored.  Each element maps the keys that were stored to the iowrap
\* variant of the run that stored them: the running one ("same") or the
\* other one ("other").
StoredBefore ==
    { [k \in {KeySeq[1]} |-> "same"],
      [k \in {KeySeq[1], KeySeq[2]} |-> "same"],
      [k \in {KeySeq[1]} |-> "other"] }

\* The keys an earlier run locked and never unlocked: their sentinels are
\* still in the bucket at start.
LockedBefore == { {}, {KeySeq[1]} }

OtherVariant(io) == IF io = "cleartext" THEN "secretbox" ELSE "cleartext"

Init ==
    /\ now = 0
    /\ ticks = 0
    /\ ops = 0
    /\ iowrap \in {"cleartext", "secretbox"}
    /\ db \in {"open", "nil"}
    /\ crashed = FALSE
    /\ cache = [k \in CacheKeys |-> NoEntry]
    /\ \E S \in StoredBefore, L \in LockedBefore :
          /\ db = "nil" => (iowrap = "cleartext" /\ S = [k \in {KeySeq[1]} |-> "same"])
          /\ L # {} => (iowrap = "cleartext" /\ db = "open"
                          /\ S = [k \in {KeySeq[1]} |-> "same"])
          /\ remote = [n \in ObjectNames |->
                       IF \E k \in DOMAIN S : n = objName(k)
                       THEN LET k == CHOOSE x \in DOMAIN S : n = objName(x) IN
                            [present |-> TRUE,
                             body |-> ByteReader(IF S[k] = "same" THEN iowrap
                                                 ELSE OtherVariant(iowrap),
                                                 5, <<1>>),
                             modified |-> 0]
                       ELSE IF \E k \in L : n = objLockName(k)
                       THEN [present |-> TRUE, body |-> Format(now), modified |-> 0]
                       ELSE NoObject]
    /\ pc = [c \in Callers |-> "idle"]
    /\ loc = [c \in Callers |-> NoLoc]
    /\ ret = NoRet
    /\ lastStat = NoStat
    /\ lockedBy = [k \in AllKeys |-> {}]

\* A caller may start a call.
CanCall(c) == ~crashed /\ pc[c] = "idle" /\ ops < MaxOps

\* Caller c's call returns r.
Return(c, r) ==
    /\ pc' = [pc EXCEPT ![c] = "idle"]
    /\ loc' = [loc EXCEPT ![c] = NoLoc]
    /\ ret' = r

\* A cache call on the nil handle dereferences it: the process panics.
Panic ==
    /\ crashed' = TRUE
    /\ UNCHANGED <<now, ticks, iowrap, db, lastStat, lockedBy, cache, remote, pc, loc, ret>>

\* ------------------------------------------------------------ Store, Delete

\* Store as it would be with the value written as given, not passed through
\* gs.iowrap.ByteReader.
StoreUnwrapped(c, key, value, nonce, putErr) ==
    /\ CanCall(c)
    /\ ops' = ops + 1
    /\ remote' = IF putErr THEN remote ELSE PutObject(objName(key), value)
    /\ Return(c, Result(c, "Store", key, IF putErr THEN "remote" ELSE "nil",
                        value, NoKi, FALSE, TRUE))
    /\ lastStat' = IF putErr THEN lastStat ELSE Touched(objName(key))
    /\ UNCHANGED <<now, ticks, iowrap, db, crashed, cache, lockedBy>>

\* Store as it would be if it dropped key's cache entry after the write.
StoreInvalidating(c, key, value, nonce, putErr) ==
    /\ CanCall(c)
    /\ ops' = ops + 1
    /\ remote' = IF putErr THEN remote
                 ELSE PutObject(objName(key), ByteReader(iowrap, nonce, value))
    /\ cache' = IF putErr THEN cache ELSE [cache EXCEPT ![key] = NoEntry]
    /\ Return(c, Result(c, "Store", key, IF putErr THEN "remote" ELSE "nil",
                        value, NoKi, FALSE, TRUE))
    /\ lastStat' = IF putErr THEN lastStat ELSE Touched(objName(key))
    /\ UNCHANGED <<now, ticks, iowrap, db, crashed, lockedBy>>

\* Store(ctx, key, value); putErr: the PutObject call fails.
Store(c, key, value, nonce, putErr) ==
    /\ CanCall(c)
    /\ ops' = ops + 1
    /\ remote' = IF putErr THEN remote
                 ELSE PutObject(objName(key), ByteReader(iowrap, nonce, value))
    /\ Return(c, Result(c, "Store", key, IF putErr THEN "remote" ELSE "nil",
                        value, NoKi, FALSE, TRUE))
    /\ lastStat' = IF putErr THEN lastStat ELSE Touched(objName(key))
    /\ UNCHANGED <<now, ticks, iowrap, db, crashed, cache, lockedBy>>

\* Delete(ctx, key); rmErr: the RemoveObject call fails.
Delete(c, key, rmErr) ==
    /\ CanCall(c)
    /\ ops' = ops + 1
    /\ remote' = IF rmErr THEN remote ELSE RemoveObject(objName(key))
    /\ Return(c, Result(c, "Delete", key, IF rmErr THEN "remote" ELSE "nil",
                        <<>>, NoKi, FALSE, TRUE))
    /\ lastStat' = IF rmErr THEN lastStat ELSE Touched(objName(key))
    /\ UNCHANGED <<now, ticks, iowrap, db, crashed, cache, lockedBy>>

\* Exists as it would be if it answered from the cache when it can.
ExistsCached(c, key, statErr) ==
    /\ CanCall(c)
    /\ ops' = ops + 1
    /\ Return(c, Result(c, "Exists", key, "nil", <<>>, NoKi,
                        \/ cache[key].present /\ now < cache[key].expiresAt
                        \/ ~statErr /\ remote[objName(key)].present,
                        TRUE))
    /\ UNCHANGED <<now, ticks, iowrap, db, lastStat, lockedBy, crashed, cache, remote>>

\* Exists(ctx, key); statErr: the StatObject call fails.
Exists(c, key, statErr) ==
    /\ CanCall(c)
    /\ ops' = ops + 1
    /\ Return(c, Result(c, "Exists", key, "nil", <<>>, NoKi,
                        ~statErr /\ remote[objName(key)].present, TRUE))
    /\ UNCHANGED <<now, ticks, iowrap, db, lastStat, lockedBy, crashed, cache, remote>>

\* --------------------------------------------------------------------- List

\* strings.HasPrefix(s, p)
HasPrefix(s, p) == Len(p) <= Len(s) /\ SubSeq(s, 1, Len(p)) = p

\* What ListObjects gives for the object name under Prefix: prefix: the name
\* when listing recursively or when no "/" follows the prefix, otherwise the
\* name cut after the first "/" that follows it (a common prefix).
ListedAs(name, prefix, recursive) ==
    LET slashes == {i \in (Len(prefix) + 1)..Len(name) : name[i] = "/"}
    IN  IF recursive \/ slashes = {} THEN name
        ELSE SubSeq(name, 1, CHOOSE i \in slashes : \A j \in slashes : i <= j)

\* ListObjects(bucket, {Prefix: prefix, Recursive: recursive}), as the set
\* of obj.Key it yields.
ListObjects(prefix, recursive) ==
    {ListedAs(n, prefix, recursive) :
        n \in {m \in ObjectNames : remote[m].present /\ HasPrefix(m, prefix)}}

\* List(ctx, prefix, recursive); listErr: the listing fails, and the channel
\* yields one ObjectInfo that carries the error and an empty Key.
List(c, prefix, recursive, listErr) ==
    /\ CanCall(c)
    /\ ops' = ops + 1
    /\ Return(c, [Result(c, "List", prefix, "nil", <<>>, NoKi, FALSE, TRUE)
                    EXCEPT !.names = IF listErr THEN {<<>>}
                                     ELSE ListObjects(prefix, recursive)])
    /\ UNCHANGED <<now, ticks, iowrap, db, lastStat, lockedBy, crashed, cache, remote>>

\* --------------------------------------------------------------------- Load

\* Load's remote read as it would be if the error of the unwrapped stream
\* were dropped and the bytes read so far returned.
readObjectUnchecked(key, getErr, readErr) ==
    IF getErr \/ readErr \/ ReadAll(Handle(objName(key))).err
    THEN [err |-> TRUE, buf |-> <<>>]
    ELSE [err |-> FALSE, buf |-> WrapReader(iowrap, ReadAll(Handle(objName(key))).buf).buf]

\* Load's remote read: GetObject, then io.ReadAll of the unwrapped stream.
\* An error when GetObject fails (getErr), when the stream fails (readErr or
\* no such object) or when unwrapping fails.
readObject(key, getErr, readErr) ==
    IF getErr \/ readErr \/ ReadAll(Handle(objName(key))).err
    THEN [err |-> TRUE, buf |-> <<>>]
    ELSE WrapReader(iowrap, ReadAll(Handle(objName(key))).buf)

\* Load(ctx, key) up to its remote read.  getErr: GetObject returns an error;
\* readErr: reading the object's stream fails.
LoadBegin(c, key, getErr, readErr) ==
    /\ CanCall(c)
    /\ ops' = ops + 1
    /\ ~(getErr /\ readErr)
    /\ IF db = "nil" THEN Panic
       ELSE /\ UNCHANGED <<now, ticks, iowrap, db, lastStat, lockedBy, crashed, cache, remote>>
            /\ IF isCacheEntryExistent(key) /\ getCacheEntry(key).found
               THEN Return(c, Result(c, "Load", key, "nil", getCacheEntry(key).data,
                                     NoKi, FALSE, FALSE))
               ELSE LET rd == readObject(key, getErr, readErr)
                    IN IF rd.err
                       THEN Return(c, Result(c, "Load", key, "ErrNotExist", <<>>,
                                             NoKi, FALSE, TRUE))
                       ELSE /\ pc' = [pc EXCEPT ![c] = "load_set"]
                            /\ loc' = [loc EXCEPT ![c] = [NoLoc EXCEPT !.key = key,
                                                                      !.buf = rd.buf]]
                            /\ UNCHANGED ret

\* Load after a successful remote read: cache the bytes and return them.
LoadEnd(c) ==
    /\ ~crashed
    /\ pc[c] = "load_set"
    /\ cache' = setCacheEntry(loc[c].key, loc[c].buf, CacheTTL)
    /\ Return(c, Result(c, "Load", loc[c].key, "nil", loc[c].buf, NoKi, FALSE, TRUE))
    /\ UNCHANGED <<now, ticks, ops, iowrap, db, lastStat, lockedBy, crashed, remote>>

\* --------------------------------------------------------------------- Stat

\* The start of Stat as it would be if a cached entry that does not
\* deserialize were returned as an error.
StatBeginStrict(c, key, statErr) ==
    /\ CanCall(c)
    /\ ops' = ops + 1
    /\ IF db = "nil" THEN Panic
       ELSE /\ UNCHANGED <<now, ticks, iowrap, db, lastStat, lockedBy, crashed, cache, remote>>
            /\ IF /\ isCacheEntryExistent(kiCacheKey(key))
                  /\ getCacheEntry(kiCacheKey(key)).found
               THEN IF Unmarshal(getCacheEntry(kiCacheKey(key)).data).err
                    THEN Return(c, Result(c, "Stat", key, "unmarshal", <<>>, NoKi,
                                          FALSE, FALSE))
                    ELSE Return(c, Result(c, "Stat", key, "nil", <<>>,
                                     Unmarshal(getCacheEntry(kiCacheKey(key)).data).ki,
                                     FALSE, FALSE))
               ELSE IF statErr \/ ~remote[objName(key)].present
                    THEN Return(c, Result(c, "Stat", key, "remote", <<>>, NoKi, FALSE, TRUE))
                    ELSE /\ pc' = [pc EXCEPT ![c] = "stat_set"]
                         /\ loc' = [loc EXCEPT ![c] =
                                [NoLoc EXCEPT !.key = key,
                                              !.ki = [Key |-> key,
                                                      Size |-> Len(remote[objName(key)].body),
                                                      Modified |-> remote[objName(key)].modified,
                                                      IsTerminal |-> TRUE]]]
                         /\ UNCHANGED ret

\* Stat(ctx, key) up to its StatObject call; statErr: the call fails.
StatBegin(c, key, statErr) ==
    /\ CanCall(c)
    /\ ops' = ops + 1
    /\ IF db = "nil" THEN Panic
       ELSE /\ UNCHANGED <<now, ticks, iowrap, db, lastStat, lockedBy, crashed, cache, remote>>
            /\ IF /\ isCacheEntryExistent(kiCacheKey(key))
                  /\ getCacheEntry(kiCacheKey(key)).found
                  /\ ~Unmarshal(getCacheEntry(kiCacheKey(key)).data).err
               THEN Return(c, Result(c, "Stat", key, "nil", <<>>,
                                     Unmarshal(getCacheEntry(kiCacheKey(key)).data).ki,
                                     FALSE, FALSE))
               ELSE IF statErr \/ ~remote[objName(key)].present
                    THEN Return(c, Result(c, "Stat", key, "remote", <<>>, NoKi, FALSE, TRUE))
                    ELSE /\ pc' = [pc EXCEPT ![c] = "stat_set"]
                         /\ loc' = [loc EXCEPT ![c] =
                                [NoLoc EXCEPT !.key = key,
                                              !.ki = [Key |-> key,
                                                      Size |-> Len(remote[objName(key)].body),
                                                      Modified |-> remote[objName(key)].modified,
                                                      IsTerminal |-> TRUE]]]
                         /\ UNCHANGED ret

\* Stat after a successful StatObject: cache the serialized KeyInfo, return it.
StatEnd(c) ==
    /\ ~crashed
    /\ pc[c] = "stat_set"
    /\ cache' = setCacheEntry(kiCacheKey(loc[c].key), Marshal(loc[c].ki), CacheTTL)
    /\ Return(c, Result(c, "Stat", loc[c].key, "nil", <<>>, loc[c].ki, FALSE, TRUE))
    /\ lastStat' = [key |-> loc[c].key, ki |-> loc[c].ki, at |-> now]
    /\ UNCHANGED <<now, ticks, ops, iowrap, db, crashed, remote, lockedBy>>

\* ------------------------------------------------------------- Lock, Unlock

\* putLockFile as it would be if it wrote a timestamp other than the current
\* time.
putLockFileStale(key) == PutObject(objLockName(key), Format(0))

\* putLockFile(key): the bucket with key's sentinel holding the current time.
putLockFile(key) == PutObject(objLockName(key), Format(now))

\* The start of Lock as it would be without the cache shortcut.
LockBeginNoShortcut(c, key) ==
    /\ CanCall(c)
    /\ ops' = ops + 1
    /\ IF db = "nil" THEN Panic
       ELSE /\ UNCHANGED <<now, ticks, iowrap, db, lastStat, lockedBy, crashed, cache, remote>>
            /\ pc' = [pc EXCEPT ![c] = "lock_get"]
            /\ loc' = [loc EXCEPT ![c] = [NoLoc EXCEPT !.key = key,
                                                      !.startedAt = now,
                                                      !.polledAt = now,
                                                      !.wakeAt = now]]
            /\ UNCHANGED ret

\* Lock(ctx, key) up to the start of its polling loop.
LockBegin(c, key) ==
    /\ CanCall(c)
    /\ ops' = ops + 1
    /\ IF db = "nil" THEN Panic
       ELSE /\ UNCHANGED <<now, ticks, iowrap, db, lastStat, lockedBy, crashed, cache, remote>>
            /\ IF isCacheEntryExistent(key)
               THEN /\ Return(c, Result(c, "Lock", key, "nil", <<>>, NoKi, FALSE, FALSE))
               ELSE /\ pc' = [pc EXCEPT ![c] = "lock_get"]
                    /\ loc' = [loc EXCEPT ![c] = [NoLoc EXCEPT !.key = key,
                                                              !.startedAt = now,
                                                              !.polledAt = now,
                                                              !.wakeAt = now]]
                    /\ UNCHANGED ret

\* One iteration of Lock's loop, from GetObject to the return, the continue
\* or the sleep that ends it; getErr: GetObject returns an error (and a nil
\* object).  An iteration that goes on to putLockFile leaves the write to
\* LockPut.
LockPoll(c, getErr) ==
    /\ ~crashed
    /\ pc[c] = "lock_get"
    /\ now >= loc[c].wakeAt
    /\ UNCHANGED <<now, ticks, ops, iowrap, db, lastStat, lockedBy, crashed, cache, remote>>
    /\ LET obj == IF getErr THEN NilObject ELSE Handle(objLockName(loc[c].key))
           rd == ReadAll(obj)
           lt == ParseTime(rd.buf)
       IN  IF ~getErr
           THEN /\ pc' = [pc EXCEPT ![c] = "lock_put"]
                /\ UNCHANGED <<loc, ret>>
           ELSE IF rd.err
           THEN \* Retry
                /\ loc' = [loc EXCEPT ![c].polledAt = now]
                /\ UNCHANGED <<pc, ret>>
           ELSE IF lt.err \/ lt.t + LockTimeout < now
           THEN /\ pc' = [pc EXCEPT ![c] = "lock_put"]
                /\ UNCHANGED <<loc, ret>>
           ELSE IF loc[c].startedAt + LockTimeout < now
           THEN Return(c, Result(c, "Lock", loc[c].key, "acquiring lock failed",
                                 <<>>, NoKi, FALSE, TRUE))
           ELSE /\ loc' = [loc EXCEPT ![c].polledAt = now,
                                      ![c].wakeAt = now + LockPollInterval]
                /\ UNCHANGED <<pc, ret>>

\* The end of Lock as it would be if it returned success without writing the
\* sentinel.
LockPutDropped(c, putErr) ==
    /\ ~crashed
    /\ pc[c] = "lock_put"
    /\ Return(c, Result(c, "Lock", loc[c].key, "nil", <<>>, NoKi, FALSE, TRUE))
    /\ UNCHANGED <<now, ticks, ops, iowrap, db, lastStat, lockedBy, crashed, cache, remote>>

\* return gs.putLockFile(key); putErr: the PutObject call fails.
LockPut(c, putErr) ==
    /\ ~crashed
    /\ pc[c] = "lock_put"
    /\ remote' = IF putErr THEN remote ELSE putLockFile(loc[c].key)
    /\ Return(c, Result(c, "Lock", loc[c].key, IF putErr THEN "remote" ELSE "nil",
                        <<>>, NoKi, FALSE, TRUE))
    /\ lastStat' = IF putErr THEN lastStat ELSE Touched(objLockName(loc[c].key))
    /\ lockedBy' = IF putErr THEN lockedBy
                   ELSE [lockedBy EXCEPT ![loc[c].key] = @ \cup {c}]
    /\ UNCHANGED <<now, ticks, ops, iowrap, db, crashed, cache>>

\* Unlock as it would be without the cache shortcut.
UnlockAlways(c, key, rmErr) ==
    /\ CanCall(c)
    /\ ops' = ops + 1
    /\ IF db = "nil" THEN Panic
       ELSE /\ UNCHANGED <<now, ticks, iowrap, db, crashed, cache>>
            /\ remote' = IF rmErr THEN remote ELSE RemoveObject(objLockName(key))
            /\ lastStat' = IF rmErr THEN lastStat ELSE Touched(objLockName(key))
            /\ lockedBy' = IF rmErr THEN lockedBy
                           ELSE [lockedBy EXCEPT ![key] = @ \ {c}]
            /\ Return(c, Result(c, "Unlock", key, IF rmErr THEN "remote" ELSE "nil",
                                <<>>, NoKi, FALSE, TRUE))

\* Unlock(ctx, key); rmErr: the RemoveObject call fails.
Unlock(c, key, rmErr) ==
    /\ CanCall(c)
    /\ ops' = ops + 1
    /\ IF db = "nil" THEN Panic
       ELSE /\ UNCHANGED <<now, ticks, iowrap, db, crashed, cache>>
            /\ IF isCacheEntryExistent(key)
               THEN /\ Return(c, Result(c, "Unlock", key, "nil", <<>>, NoKi, FALSE, FALSE))
                    /\ lockedBy' = [lockedBy EXCEPT ![key] = @ \ {c}]
                    /\ UNCHANGED <<remote, lastStat>>
               ELSE /\ remote' = IF rmErr THEN remote ELSE RemoveObject(objLockName(key))
                    /\ lastStat' = IF rmErr THEN lastStat ELSE Touched(objLockName(key))
                    /\ lockedBy' = IF rmErr THEN lockedBy
                                   ELSE [lockedBy EXCEPT ![key] = @ \ {c}]
                    /\ Return(c, Result(c, "Unlock", key, IF rmErr THEN "remote" ELSE "nil",
                                        <<>>, NoKi, FALSE, TRUE))

\* --------------------------------------------------------------------- time

Tick(d) ==
    /\ ~crashed
    /\ ticks < MaxTicks
    /\ now' = now + d
    /\ ticks' = ticks + 1
    /\ UNCHANGED <<ops, iowrap, db, lastStat, lockedBy, crashed, cache, remote, pc, loc, ret>>

\* ------------------------------------------------------------ specification

Next ==
    \/ \E c \in Writers, k \in Keys, v \in Payloads, n \in Nonces, e \in BOOLEAN :
          Store(c, k, v, n, e)
    \/ \E c \in Writers, k \in Keys, e \in BOOLEAN : Delete(c, k, e)
    \/ \E c \in Writers, k \in Keys, e \in BOOLEAN : Exists(c, k, e)
    \/ \E c \in Writers, p \in ListPrefixes, r \in BOOLEAN, e \in BOOLEAN :
          List(c, p, r, e)
    \/ \E c \in Callers, k \in Keys, e1 \in BOOLEAN, e2 \in BOOLEAN :
          LoadBegin(c, k, e1, e2)
    \/ \E c \in Callers : LoadEnd(c)
    \/ \E c \in Callers, k \in Keys, e \in BOOLEAN : StatBegin(c, k, e)
    \/ \E c \in Callers : StatEnd(c)
    \/ \E c \in Callers, k \in Keys : LockBegin(c, k)
    \/ \E c \in Callers, e \in BOOLEAN : LockPoll(c, e)
    \/ \E c \in Callers, e \in BOOLEAN : LockPut(c, e)
    \/ \E c \in Callers, k \in Keys, e \in BOOLEAN : Unlock(c, k, e)
    \/ \E d \in TickSteps : Tick(d)

Spec == Init /\ [][Next]_vars

\* The same program with callers that use the keys "a" and "a.lock".
LockKeys == {KeySeq[1], KeySeq[3]}

NextLockKeys ==
    \/ \E c \in Writers, k \in LockKeys, v \in Payloads, n \in Nonces, e \in BOOLEAN :
          Store(c, k, v, n, e)
    \/ \E c \in Writers, k \in LockKeys, e \in BOOLEAN : Delete(c, k, e)
    \/ \E c \in Writers, k \in LockKeys, e \in BOOLEAN : Exists(c, k, e)
    \/ \E c \in Writers, p \in ListPrefixes, r \in BOOLEAN, e \in BOOLEAN :
          List(c, p, r, e)
    \/ \E c \in Callers, k \in LockKeys, e1 \in BOOLEAN, e2 \in BOOLEAN :
          LoadBegin(c, k, e1, e2)
    \/ \E c \in Callers : LoadEnd(c)
    \/ \E c \in Callers, k \in LockKeys, e \in BOOLEAN : StatBegin(c, k, e)
    \/ \E c \in Callers : StatEnd(c)
    \/ \E c \in Callers, k \in LockKeys : LockBegin(c, k)
    \/ \E c \in Callers, e \in BOOLEAN : LockPoll(c, e)
    \/ \E c \in Callers, e \in BOOLEAN : LockPut(c, e)
    \/ \E c \in Callers, k \in LockKeys, e \in BOOLEAN : Unlock(c, k, e)
    \/ \E d \in TickSteps : Tick(d)

SpecLockKeys == Init /\ [][NextLockKeys]_vars

\* ------------------------------------------------------------------ claims

\* The cache has an entry for key that has not expired.
Unexpired(key) == cache[key].present /\ now < cache[key].expiresAt

\* A step that starts a call and after which the last return is op's or a
\* caller stands at the label at: the only steps in which a call of op can
\* have started.
Starts(op, at) ==
    /\ ops' = ops + 1
    /\ ret'.op = op \/ \E c \in Callers : pc'[c] = at

\* C1: after Store(k, v) has succeeded and before any other call returns
\* (so nothing else wrote k's object), a Load(k) that finds no unexpired
\* cache entry for k and whose remote read does not fail reads v back from
\* the remote store, under either iowrap variant, and returns the bytes it
\* read.
C1_StoreLoadRoundTrip ==
    [][ /\ ( Starts("Load", "load_set") /\ ret.op = "Store" /\ ret.err = "nil" )
           => \A c \in Callers, k \in Keys :
             ( /\ db = "open"
               /\ ~Unexpired(k)
               /\ ret.key = k
               /\ LoadBegin(c, k, FALSE, FALSE) )
             => /\ pc'[c] = "load_set"
                /\ loc'[c].key = k
                /\ loc'[c].buf = ret.val
        /\ \A c \in Callers :
             LoadEnd(c)
             => ret' = Result(c, "Load", loc[c].key, "nil", loc[c].buf,
                              NoKi, FALSE, TRUE)
      ]_vars

\* C1's case: under SecretBoxIO a Load has returned, from the remote store,
\* the payload that only a Store of this run can have written.
C1_Witness ==
    /\ iowrap = "secretbox"
    /\ ret.op = "Load" /\ ret.err = "nil" /\ ret.remote
    /\ ret.val = <<2, 3>>
    /\ remote[objName(ret.key)].present
    /\ remote[objName(ret.key)].body \in {SecretBoxSeal(n, <<2, 3>>) : n \in Nonces}

\* C2: when a Lock(k) returns success, the last call that returned was not a
\* successful Lock(k) of another caller that returned while this one was
\* already in progress: two overlapping Lock(k) calls, with no Unlock(k) (no
\* call at all) returning between them, do not both succeed.  The remote
\* store of the model gives read-after-write visibility.
C2_NoDoubleLock ==
    [][ \A c \in Callers :
          ( /\ pc[c] = "lock_put"
            /\ pc'[c] = "idle"
            /\ ret'.op = "Lock" /\ ret'.by = c /\ ret'.err = "nil" )
          => ~( /\ ret.op = "Lock" /\ ret.err = "nil"
                /\ ret.by # c
                /\ ret.key = ret'.key
                /\ c \in ret.during )
      ]_vars

\* C3: a Lock call that is still polling made its last poll no later than
\* the acquisition deadline, LockTimeout after it started: past the deadline
\* it has returned (with the timeout error if it did not acquire the lock).
C3_LockPollsWithinDeadline ==
    \A c \in Callers :
        pc[c] = "lock_get" => loc[c].polledAt <= loc[c].startedAt + LockTimeout

\* C4: a Load(k) issued while the cache holds an entry for k whose expiry
\* instant has not been reached returns the entry's bytes unmodified without
\* going to the remote store; a Load(k) issued once the expiry instant is
\* reached does what it does with no entry at all: it reads the remote object.
C4_LoadCacheTTL ==
    [][ Starts("Load", "load_set")
        => \A c \in Callers, k \in Keys, e1 \in BOOLEAN, e2 \in BOOLEAN :
          ( db = "open" /\ LoadBegin(c, k, e1, e2) )
          => IF cache[k].present /\ now < cache[k].expiresAt
             THEN /\ pc'[c] = "idle"
                  /\ ret' = Result(c, "Load", k, "nil", cache[k].data,
                                   NoKi, FALSE, FALSE)
             ELSE LET body == remote[objName(k)].body
                      fails == \/ e1 \/ e2
                               \/ ~remote[objName(k)].present
                               \/ WrapReader(iowrap, body).err
                  IN  IF fails
                      THEN /\ pc'[c] = "idle"
                           /\ ret'.by = c /\ ret'.op = "Load" /\ ret'.remote
                           /\ ret'.err = "ErrNotExist"
                      ELSE /\ pc'[c] = "load_set"
                           /\ loc'[c].key = k
                           /\ loc'[c].buf = WrapReader(iowrap, body).buf
      ]_vars

\* C4's case: the last call to return was a Load(k) served from the cache,
\* the entry it returned has since expired, and a new Load(k) has gone to the
\* remote store with the expired entry still in the cache.
C4_Witness ==
    \E c \in Callers :
        /\ pc[c] = "load_set"
        /\ loc[c].key = ret.key
        /\ ret.op = "Load" /\ ret.err = "nil" /\ ~ret.remote
        /\ cache[ret.key].present
        /\ ret.val = cache[ret.key].data
        /\ now >= cache[ret.key].expiresAt

\* Every object but key's own is the same before and after the step.
OtherObjectsUnchanged(key) ==
    \A n \in ObjectNames \ {objName(key)} : remote'[n] = remote[n]

\* C5: Store(k, v) and Delete(k) leave the cache and every remote object but
\* k's unchanged, and a Load(k) that follows one of them while the cache
\* holds an unexpired entry for k returns the entry's (old) bytes without
\* going to the remote store.  (A Store or Delete step starts a call and
\* leaves its own return as the last one; a Load step starts a call.)
C5_StoreDeleteFrame ==
    [][ /\ ( ops' = ops + 1 /\ ret'.op = "Store" )
           => \A c \in Writers, k \in Keys, v \in Payloads, n \in Nonces, e \in BOOLEAN :
                Store(c, k, v, n, e) => cache' = cache /\ OtherObjectsUnchanged(k)
        /\ ( ops' = ops + 1 /\ ret'.op = "Delete" )
           => \A c \in Writers, k \in Keys, e \in BOOLEAN :
                Delete(c, k, e) => cache' = cache /\ OtherObjectsUnchanged(k)
        /\ ( ops' = ops + 1 /\ ret.op \in {"Store", "Delete"} /\ ret.err = "nil" )
           => \A c \in Callers, k \in Keys, e1 \in BOOLEAN, e2 \in BOOLEAN :
                ( /\ ret.key = k
                  /\ Unexpired(k)
                  /\ db = "open"
                  /\ LoadBegin(c, k, e1, e2) )
                => /\ ret'.op = "Load" /\ ret'.by = c /\ ret'.err = "nil"
                   /\ ~ret'.remote
                   /\ ret'.val = cache[k].data
      ]_vars

\* C5's case: a Load has returned the cached bytes of the object as it was
\* at start although a Store has since replaced the object with another
\* payload.
C5_Witness ==
    /\ ret.op = "Load" /\ ret.err = "nil" /\ ~ret.remote
    /\ Unexpired(ret.key)
    /\ ret.val = <<1>>
    /\ ret.val = cache[ret.key].data
    /\ remote[objName(ret.key)].present
    /\ remote[objName(ret.key)].body \in {ByteReader(iowrap, n, <<2, 3>>) : n \in Nonces}

\* C6: a Load(k) that finds no unexpired cache entry and whose remote read
\* fails (GetObject fails, the stream fails, the object is missing) or whose
\* unwrapping fails returns ErrNotExist with no bytes and leaves the cache
\* unchanged.
C6_LoadFailureNotFound ==
    [][ Starts("Load", "load_set")
        => \A c \in Callers, k \in Keys, e1 \in BOOLEAN, e2 \in BOOLEAN :
          ( /\ db = "open"
            /\ ~Unexpired(k)
            /\ \/ e1 \/ e2
               \/ ~remote[objName(k)].present
               \/ WrapReader(iowrap, remote[objName(k)].body).err
            /\ LoadBegin(c, k, e1, e2) )
          => /\ ret' = Result(c, "Load", k, "ErrNotExist", <<>>, NoKi, FALSE, TRUE)
             /\ pc'[c] = "idle"
             /\ cache' = cache
      ]_vars

\* C6's case: a Load has returned ErrNotExist for an object that is there
\* but does not unwrap, and its key has no cache entry.
C6_Witness ==
    /\ ret.op = "Load" /\ ret.err = "ErrNotExist" /\ ret.val = <<>>
    /\ remote[objName(ret.key)].present
    /\ WrapReader(iowrap, remote[objName(ret.key)].body).err
    /\ ~cache[ret.key].present

\* key's sentinel exists, holds a timestamp, and the timestamp is more than
\* LockTimeout old.
SentinelExpired(key) ==
    /\ remote[objLockName(key)].present
    /\ ~ParseTime(remote[objLockName(key)].body).err
    /\ ParseTime(remote[objLockName(key)].body).t + LockTimeout < now

\* C7: a Lock(k) with k not cached that meets an expired sentinel, gets a
\* handle from GetObject and whose PutObject succeeds, polls at once, goes
\* from its first poll to the write without sleeping, and returns success
\* with the sentinel holding the time of the write.
C7_ReclaimExpired ==
    [][ /\ \A c \in Callers, k \in Keys :
             ( /\ ops' = ops + 1
               /\ db = "open" /\ ~Unexpired(k) /\ SentinelExpired(k)
               /\ LockBegin(c, k) )
             => /\ pc'[c] = "lock_get"
                /\ loc'[c].key = k
                /\ loc'[c].wakeAt = now
        /\ \A c \in Callers :
             ( pc[c] = "lock_get" /\ SentinelExpired(loc[c].key) /\ LockPoll(c, FALSE) )
             => /\ pc'[c] = "lock_put"
                /\ loc' = loc
        /\ \A c \in Callers :
             ( pc[c] = "lock_put" /\ SentinelExpired(loc[c].key) /\ LockPut(c, FALSE) )
             => /\ ret' = Result(c, "Lock", loc[c].key, "nil", <<>>, NoKi, FALSE, TRUE)
                /\ remote'[objLockName(loc[c].key)].present
                /\ remote'[objLockName(loc[c].key)].body = Format(now)
                /\ ParseTime(remote'[objLockName(loc[c].key)].body) =
                       [err |-> FALSE, t |-> now]
      ]_vars

\* C7's case: a Lock has polled an expired sentinel and is about to
\* overwrite it.
C7_Witness ==
    \E c \in Callers :
        /\ pc[c] = "lock_put"
        /\ ~Unexpired(loc[c].key)
        /\ SentinelExpired(loc[c].key)

\* C8: a Stat(k) made less than CacheTTL after a Stat(k) fetched and cached
\* k's KeyInfo, with no write to or removal of k's object since, returns that
\* same KeyInfo from the cache without going to the remote store.
C8_StatTwiceFromCache ==
    [][ \A c \in Callers, k \in Keys, e \in BOOLEAN :
          ( /\ StatBegin(c, k, e)
            /\ db = "open"
            /\ lastStat.key = k
            /\ now < lastStat.at + CacheTTL )
          => /\ pc'[c] = "idle"
             /\ ret'.op = "Stat" /\ ret'.by = c /\ ret'.err = "nil"
             /\ ~ret'.remote
             /\ ret'.ki = lastStat.ki
      ]_vars

\* C9: when opening the cache database failed, no call crashes the process.
C9_NoCrashWithoutCache == db = "nil" => ~crashed

\* C10: Unlock(k) with no unexpired cache entry for k removes k's sentinel
\* and returns the result of the removal (on a removal error, that error,
\* with the bucket as it was and the call over); with an unexpired entry it
\* returns success and leaves the bucket unchanged.
C10_Unlock ==
    [][ ( ops' = ops + 1 /\ ret'.op = "Unlock" )
        => \A c \in Callers, k \in Keys, e \in BOOLEAN :
          ( db = "open" /\ Unlock(c, k, e) )
          => /\ pc'[c] = "idle"
             /\ IF cache[k].present /\ now < cache[k].expiresAt
                THEN /\ ret' = Result(c, "Unlock", k, "nil", <<>>, NoKi, FALSE, FALSE)
                     /\ remote' = remote
                ELSE IF e
                THEN /\ ret' = Result(c, "Unlock", k, "remote", <<>>, NoKi, FALSE, TRUE)
                     /\ remote' = remote
                ELSE /\ ret' = Result(c, "Unlock", k, "nil", <<>>, NoKi, FALSE, TRUE)
                     /\ remote' = [remote EXCEPT ![objLockName(k)] = NoObject]
      ]_vars

\* C10's case: an Unlock of a cached key has returned success with the
\* key's sentinel still in the bucket.
C10_Witness ==
    /\ ret.op = "Unlock" /\ ret.err = "nil" /\ ~ret.remote
    /\ Unexpired(ret.key)
    /\ remote[objLockName(ret.key)].present

\* C11 as stated: Exists(k) returns true exactly when the object of k is in
\* the bucket at the time of the call.
C11_ExistsIffPresent ==
    [][ ( ops' = ops + 1 /\ ret'.op = "Exists" )
        => \A c \in Writers, k \in Keys, e \in BOOLEAN :
             Exists(c, k, e) => ret'.flag = remote[objName(k)].present
      ]_vars

\* C11, amended: Exists(k) returns true exactly when its StatObject call
\* succeeds, that is when the call is answered and the object of k is in the
\* bucket (a failed call gives false for an existing object too); the answer
\* does not depend on the cache, and Exists changes neither the cache nor the
\* bucket.
C11_ExistsPassthrough ==
    [][ ( ops' = ops + 1 /\ ret'.op = "Exists" )
        => \A c \in Writers, k \in Keys, e \in BOOLEAN :
             Exists(c, k, e)
             => /\ ret' = Result(c, "Exists", k, "nil", <<>>, NoKi,
                                 ~e /\ remote[objName(k)].present, TRUE)
                /\ pc'[c] = "idle"
                /\ cache' = cache
                /\ remote' = remote
      ]_vars

\* C11's case: Exists has answered false for a key whose object is gone
\* while the cache still holds an unexpired payload entry for it.
C11_Witness ==
    /\ ret.op = "Exists" /\ ~ret.flag
    /\ ~remote[objName(ret.key)].present
    /\ Unexpired(ret.key)

SentinelFresh(key) ==
    /\ remote[objLockName(key)].present
    /\ ~ParseTime(remote[objLockName(key)].body).err
    /\ ParseTime(remote[objLockName(key)].body).t + LockTimeout >= now

\* C13: a Lock(k) of an uncached key that ends its call while k's sentinel
\* is fresh does not return success and leaves the sentinel as it is.
C13_FreshSentinelBlocks ==
    [][ \A c \in Callers :
          ( /\ pc[c] = "lock_put"
            /\ pc'[c] = "idle"
            /\ ~Unexpired(loc[c].key)
            /\ SentinelFresh(loc[c].key) )
          => /\ ret'.err # "nil"
             /\ remote'[objLockName(loc[c].key)] = remote[objLockName(loc[c].key)]
      ]_vars

\* C14: a Lock(k) called while the cache holds an unexpired entry for k
\* returns success in its first step without going to the remote store, and
\* leaves the bucket, k's sentinel included, as it is.
C14_LockCachedShortcut ==
    [][ \A c \in Callers, k \in Keys :
          ( /\ ops' = ops + 1
            /\ db = "open"
            /\ cache[k].present /\ now < cache[k].expiresAt
            /\ LockBegin(c, k) )
          => /\ pc'[c] = "idle"
             /\ ret' = Result(c, "Lock", k, "nil", <<>>, NoKi, FALSE, FALSE)
             /\ remote' = remote
             /\ cache' = cache
      ]_vars

\* C14's case: a Lock of a cached key has returned success without going to
\* the remote store although the key's sentinel is in the bucket and fresh.
C14_Witness ==
    /\ ret.op = "Lock" /\ ret.err = "nil" /\ ~ret.remote
    /\ Unexpired(ret.key)
    /\ SentinelFresh(ret.key)

\* C15: an Unlock(k) that returns success to a caller whose Lock(k) had
\* returned success by writing k's sentinel leaves no sentinel for k in the
\* bucket.
C15_UnlockRemovesSentinel ==
    [][ \A c \in Callers, k \in Keys, e \in BOOLEAN :
          ( /\ ops' = ops + 1
            /\ db = "open"
            /\ c \in lockedBy[k]
            /\ Unlock(c, k, e)
            /\ ret'.err = "nil" )
          => ~remote'[objLockName(k)].present
      ]_vars

\* C16: the bytes a successful Load returns are never a serialized KeyInfo:
\* what Stat caches is not what Load reads.
C16_NoCacheAliasing ==
    ( ret.op = "Load" /\ ret.err = "nil" ) => Unmarshal(ret.val).err

\* Every content a payload object can hold, as Load of the running variant
\* decrypts it: a payload wrapped by either variant, at start or by a Store.
ObjectContents ==
    { WrapReader(iowrap, ByteReader(io, n, v)).buf :
        <<io, n, v>> \in { x \in {"cleartext", "secretbox"} \X Nonces \X Payloads :
                             ~WrapReader(iowrap, ByteReader(x[1], x[2], x[3])).err } }

\* C17: the bytes a successful Load(k) returns are the decrypted content
\* that k's object held at some moment of the last hour; in particular they
\* are a content that the object of k can hold at all.
C17_LoadReturnsObjectContent ==
    ( ret.op = "Load" /\ ret.err = "nil" ) => ret.val \in ObjectContents

\* The bodies a Store of the running variant writes.
StoredBodies == {ByteReader(iowrap, n, v) : <<n, v>> \in Nonces \X Payloads}

\* C18: the end of a Lock and an Unlock leave every object that holds a
\* stored payload as it is, and a Store or a Delete leaves the sentinel of
\* every other key as it is.
C18_LockLeavesPayloads ==
    [][ /\ \A c \in Callers :
             ( \/ \E e \in BOOLEAN : LockPut(c, e)
               \/ \E k \in LockKeys, e \in BOOLEAN : Unlock(c, k, e) )
             => \A k2 \in AllKeys :
                  ( /\ remote[objName(k2)].present
                    /\ remote[objName(k2)].body \in StoredBodies )
                  => remote'[objName(k2)] = remote[objName(k2)]
        /\ \A c \in Writers, k2 \in LockKeys :
             ( \/ \E v \in Payloads, n \in Nonces, e \in BOOLEAN : Store(c, k2, v, n, e)
               \/ \E e \in BOOLEAN : Delete(c, k2, e) )
             => \A k \in AllKeys \ {k2} :
                  remote'[objLockName(k)] = remote[objLockName(k)]
      ]_vars

\* Stat(key) finds no usable KeyInfo in the cache: no unexpired entry under
\* key + "_ki", or one that does not deserialize.
StatMiss(key) ==
    \/ ~Unexpired(kiCacheKey(key))
    \/ Unmarshal(cache[kiCacheKey(key)].data).err

\* C19: a Stat(k) that finds no usable KeyInfo in the cache (an entry that
\* does not deserialize counts as none) calls StatObject; when that call
\* fails, Stat returns the remote store's error, not ErrNotExist, and leaves
\* the cache unchanged; when it succeeds, Stat goes on to cache the KeyInfo.
C19_StatRemoteError ==
    [][ Starts("Stat", "stat_set")
        => \A c \in Callers, k \in Keys, e \in BOOLEAN :
          ( /\ db = "open"
            /\ StatMiss(k)
            /\ StatBegin(c, k, e) )
          => IF e \/ ~remote[objName(k)].present
             THEN /\ pc'[c] = "idle"
                  /\ ret' = Result(c, "Stat", k, "remote", <<>>, NoKi, FALSE, TRUE)
                  /\ cache' = cache
             ELSE /\ pc'[c] = "stat_set"
                  /\ loc'[c].key = k
                  /\ loc'[c].ki.Size = Len(remote[objName(k)].body)
                  /\ cache' = cache
      ]_vars

\* C19's case: a Stat has returned the remote store's error while the cache
\* holds, under its KeyInfo key, an unexpired entry that does not
\* deserialize; the entry is still there.
C19_Witness ==
    /\ ret.op = "Stat" /\ ret.err = "remote" /\ ret.remote
    /\ Unexpired(kiCacheKey(ret.key))
    /\ Unmarshal(cache[kiCacheKey(ret.key)].data).err

\* C20: a recursive List(p) whose listing does not fail returns, as a
\* logical key, every key that has p as a prefix and whose object is in the
\* bucket; List returns a nil error.
C20_ListReturnsStoredKeys ==
    [][ \A c \in Writers, p \in ListPrefixes :
          ( ops' = ops + 1 /\ List(c, p, TRUE, FALSE) )
          => /\ ret'.err = "nil"
             /\ \A k \in Keys :
                  ( HasPrefix(k, p) /\ remote[objName(k)].present )
                  => k \in ret'.names
      ]_vars

====
